---- MODULE Spec2Model ----
(***************************************************************************)
(* Mass Balance Diagnostic Framework: one run of the Streamlit script      *)
(* app.py over one uploaded table, with the pipeline of preprocessing.py   *)
(* (normalize_columns, detect_degradant_columns, preprocess_input,         *)
(* validate_and_clean) and the rules of recommendation_logic.py            *)
(* (interpret_z_mb, diagnostic_zone, recommended_action).                  *)
(*                                                                         *)
(* Text is a sequence of one-character strings, so that strip, lower,      *)
(* replace, "in" and startswith are computed as Python computes them.      *)
(* A number is an exact fraction n/d; the inputs are multiples of 1/2,     *)
(* which binary floating point represents exactly, so every comparison     *)
(* the code makes has the same outcome on the fractions as on the floats.  *)
(* The en dash of the zone labels and of rec_matrix is written "-".        *)
(***************************************************************************)
EXTENDS Integers, Sequences, FiniteSets, TLC

VARIABLES pc, raw_df, clean_df, issues_df, error, rendered

vars == <<pc, raw_df, clean_df, issues_df, error, rendered>>

(***************************************************************************)
(* Text                                                                    *)
(***************************************************************************)
\* canonical column names (keys of COLUMN_ALIASES, preprocessing.py:8-29)
s_api_name == <<"a","p","i","_","n","a","m","e">>
s_api_code == <<"a","p","i","_","c","o","d","e">>
s_stress_type == <<"s","t","r","e","s","s","_","t","y","p","e">>
s_time_months == <<"t","i","m","e","_","m","o","n","t","h","s">>
s_api_assay == <<"a","p","i","_","a","s","s","a","y">>

\* alias spellings (values of COLUMN_ALIASES)
a_api_name_sp == <<"a","p","i"," ","n","a","m","e">>
a_api == <<"a","p","i">>
a_api_code_sp == <<"a","p","i"," ","c","o","d","e">>
a_stress_type_sp == <<"s","t","r","e","s","s"," ","t","y","p","e">>
a_stress_typ == <<"s","t","r","e","s","s","_","t","y","p">>
a_stress == <<"s","t","r","e","s","s">>
a_time == <<"t","i","m","e">>
a_time_mon == <<"t","i","m","e","_","m","o","n">>
a_months == <<"m","o","n","t","h","s">>
a_time_month == <<"t","i","m","e","_","m","o","n","t","h">>
a_api_assay_sp == <<"a","p","i"," ","a","s","s","a","y">>
a_api_assay_percent == <<"a","p","i","_","a","s","s","a","y","_","p","e","r","c","e","n","t">>
a_api_assay_percent_sp == <<"a","p","i"," ","a","s","s","a","y"," ","p","e","r","c","e","n","t">>
a_assay == <<"a","s","s","a","y">>
a_assay_percent == <<"a","s","s","a","y","_","p","e","r","c","e","n","t">>

\* literals of normalize_columns / detect_degradant_columns
s_degradant == <<"d","e","g","r","a","d","a","n","t">>
s_degradant_ == <<"d","e","g","r","a","d","a","n","t","_">>
s_space == <<" ">>
s_underscore == <<"_">>

\* derived columns written by preprocess_input and app.py
s_total_degradants == <<"t","o","t","a","l","_","d","e","g","r","a","d","a","n","t","s">>
s_AMB == <<"A","M","B">>
s_AMBD == <<"A","M","B","D">>
s_RMB == <<"R","M","B">>
s_RMBD == <<"R","M","B","D">>
s_Z_MB == <<"Z","_","M","B">>
s_Z_MB_Interpretation == <<"Z","_","M","B"," ","I","n","t","e","r","p","r","e","t","a","t","i","o","n">>
s_Diagnostic_Zone == <<"D","i","a","g","n","o","s","t","i","c"," ","Z","o","n","e">>
s_Recommended_Action == <<"R","e","c","o","m","m","e","n","d","e","d"," ","A","c","t","i","o","n">>

\* issue texts of validate_and_clean and the join separator
s_API_assay_out_of_range == <<"A","P","I"," ","a","s","s","a","y"," ","o","u","t"," ","o","f"," ","r","a","n","g","e">>
s_Negative_degradants == <<"N","e","g","a","t","i","v","e"," ","d","e","g","r","a","d","a","n","t","s">>
s_Suspicious_mass_loss == <<"S","u","s","p","i","c","i","o","u","s"," ","m","a","s","s"," ","l","o","s","s">>
s_comma_space == <<","," ">>

\* interpret_z_mb results (first component)
s_Invalid_Z_MB == <<"I","n","v","a","l","i","d"," ","Z","_","M","B">>
s_Within_analytical_variability == <<"W","i","t","h","i","n"," ","a","n","a","l","y","t","i","c","a","l"," ","v","a","r","i","a","b","i","l","i","t","y">>
s_Statistically_significant_mass_loss == <<"S","t","a","t","i","s","t","i","c","a","l","l","y"," ","s","i","g","n","i","f","i","c","a","n","t"," ","m","a","s","s"," ","l","o","s","s">>
s_Statistically_significant_over_recovery == <<"S","t","a","t","i","s","t","i","c","a","l","l","y"," ","s","i","g","n","i","f","i","c","a","n","t"," ","o","v","e","r","-","r","e","c","o","v","e","r","y">>

\* diagnostic_zone labels (the source's en dash is written '-')
Zone1_label == <<"Z","o","n","e"," ","1"," ","-"," ","A","n","a","l","y","t","i","c","a","l"," ","v","a","r","i","a","b","i","l","i","t","y">>
Zone2_label == <<"Z","o","n","e"," ","2"," ","-"," ","M","i","s","s","i","n","g"," ","o","r"," ","u","n","d","e","t","e","c","t","e","d"," ","d","e","g","r","a","d","a","n","t","s">>
Zone3_physical_label == <<"Z","o","n","e"," ","3"," ","-"," ","P","h","y","s","i","c","a","l"," ","l","o","s","s"," ","m","e","c","h","a","n","i","s","m","s">>
Zone4_label == <<"Z","o","n","e"," ","4"," ","-"," ","O","v","e","r","e","s","t","i","m","a","t","i","o","n"," ","/"," ","R","F"," ","m","i","s","m","a","t","c","h">>
Zone3_default_label == <<"Z","o","n","e"," ","3"," ","-"," ","M","e","t","h","o","d"," ","o","r"," ","d","e","g","r","a","d","a","t","i","o","n"," ","p","a","t","h","w","a","y"," ","i","s","s","u","e">>

\* recommended_action literals
s_Zone_1 == <<"Z","o","n","e"," ","1">>
s_Zone_2 == <<"Z","o","n","e"," ","2">>
s_Zone_3 == <<"Z","o","n","e"," ","3">>
s_Zone_4 == <<"Z","o","n","e"," ","4">>
s_No_investigation_required == <<"N","o"," ","i","n","v","e","s","t","i","g","a","t","i","o","n"," ","r","e","q","u","i","r","e","d">>
s_Search_for_additional_degradants == <<"S","e","a","r","c","h"," ","f","o","r"," ","a","d","d","i","t","i","o","n","a","l"," ","d","e","g","r","a","d","a","n","t","s"," ","/"," ","v","o","l","a","t","i","l","i","t","y"," ","s","t","u","d","i","e","s">>
s_Investigate_physical_loss == <<"I","n","v","e","s","t","i","g","a","t","e"," ","p","h","y","s","i","c","a","l"," ","l","o","s","s"," ","o","r"," ","d","e","g","r","a","d","a","t","i","o","n"," ","p","a","t","h","w","a","y","s">>
s_Review_response_factors == <<"R","e","v","i","e","w"," ","r","e","s","p","o","n","s","e"," ","f","a","c","t","o","r","s"," ","a","n","d"," ","i","n","t","e","g","r","a","t","i","o","n"," ","p","a","r","a","m","e","t","e","r","s">>
s_Expert_review_required == <<"E","x","p","e","r","t"," ","r","e","v","i","e","w"," ","r","e","q","u","i","r","e","d">>

\* 'Recommended Action' column of rec_matrix (app.py:170-175; en dash written '-')
m_No_action_required == <<"N","o"," ","a","c","t","i","o","n"," ","r","e","q","u","i","r","e","d">>
m_Orthogonal_testing == <<"O","r","t","h","o","g","o","n","a","l"," ","t","e","s","t","i","n","g"," ","(","L","C","-","M","S",","," ","C","A","D","/","E","L","S","D",","," ","a","l","t","e","r","n","a","t","e"," ","c","o","l","u","m","n",")">>
m_Investigate_physical_loss == <<"I","n","v","e","s","t","i","g","a","t","e"," ","p","h","y","s","i","c","a","l"," ","l","o","s","s"," ","(","v","i","a","l"," ","a","d","s","o","r","p","t","i","o","n",","," ","h","e","a","d","s","p","a","c","e",")">>
m_Verify_RRFs == <<"V","e","r","i","f","y"," ","R","R","F","s",","," ","p","e","a","k"," ","p","u","r","i","t","y",","," ","a","n","d"," ","i","n","t","e","g","r","a","t","i","o","n"," ","p","a","r","a","m","e","t","e","r","s">>

\* raw header spellings offered to the app
h_API_Name == <<"A","P","I"," ","N","a","m","e">>
h_API_Code == <<"A","P","I"," ","C","o","d","e">>
h_API_Assay == <<"A","P","I"," ","A","s","s","a","y">>
h_api_assay_padded == <<" ","a","p","i"," ","a","s","s","a","y"," ">>
h_Assay_pct == <<"A","s","s","a","y"," ","%">>
h_Stress_Type == <<"S","t","r","e","s","s"," ","T","y","p","e">>
h_STRESS == <<"S","T","R","E","S","S">>
h_Time == <<"T","i","m","e">>
h_Time_Months == <<"T","i","m","e","_","M","o","n","t","h","s">>
h_Degradant_A == <<"D","e","g","r","a","d","a","n","t"," ","A">>
h_degradant_b_padded == <<" ","d","e","g","r","a","d","a","n","t","_","b"," ">>
h_Total_Degradants == <<"T","o","t","a","l"," ","D","e","g","r","a","d","a","n","t","s">>
h_Known_Degradant_X == <<"K","n","o","w","n"," ","D","e","g","r","a","d","a","n","t"," ","X">>
h_Degradants == <<"D","e","g","r","a","d","a","n","t","s">>
h_Impurity_A == <<"I","m","p","u","r","i","t","y"," ","A">>
h_Degradant_B == <<"D","e","g","r","a","d","a","n","t"," ","B">>
(***************************************************************************)
(* Python str operations used by the code                                  *)
(***************************************************************************)
UpperCase == <<"A","B","C","D","E","F","G","H","I","J","K","L","M","N","O","P","Q","R","S","T","U","V","W","X","Y","Z">>
LowerCase == <<"a","b","c","d","e","f","g","h","i","j","k","l","m","n","o","p","q","r","s","t","u","v","w","x","y","z">>

\* a sequence given by a rule, with its elements computed once
Tup(f) == f \o <<>>

\* the element of a one-element set: TheOne({F(v) : v \in {e}}) is F(e), with e
\* computed once
TheOne(S) == CHOOSE x \in S : TRUE

\* str.lower() on one character
LowerChar(c) ==
    IF \E i \in 1..Len(UpperCase) : UpperCase[i] = c
    THEN LowerCase[CHOOSE i \in 1..Len(UpperCase) : UpperCase[i] = c]
    ELSE c

\* str.lower()
lower(s) == Tup([i \in 1..Len(s) |-> LowerChar(s[i])])

\* str.strip(): leading and trailing whitespace removed
strip(s) ==
    LET keep == {i \in 1..Len(s) : s[i] # " "}
    IN  IF keep = {} THEN <<>>
        ELSE LET lo == CHOOSE i \in keep : \A j \in keep : i <= j
                 hi == CHOOSE i \in keep : \A j \in keep : j <= i
             IN  SubSeq(s, lo, hi)

\* str.replace(old, new) for one-character old and new
replace(s, old, new) == Tup([i \in 1..Len(s) |-> IF <<s[i]>> = old THEN new[1] ELSE s[i]])

\* sub in s
Contains(sub, s) ==
    \E i \in 1..(Len(s) - Len(sub) + 1) : SubSeq(s, i, i + Len(sub) - 1) = sub

\* s.startswith(prefix)
startswith(s, prefix) ==
    Len(s) >= Len(prefix) /\ SubSeq(s, 1, Len(prefix)) = prefix

\* sep.join(parts)
RECURSIVE join(_, _)
join(sep, parts) ==
    IF parts = <<>> THEN <<>>
    ELSE IF Len(parts) = 1 THEN parts[1]
    ELSE parts[1] \o sep \o join(sep, Tail(parts))

(***************************************************************************)
(* Cell values: a number n/d (d > 0, lowest terms), NaN (pandas' missing   *)
(* float), None (Python's None in an object column), or unparsable text.   *)
(***************************************************************************)
RECURSIVE GCD(_, _)
GCD(a, b) == IF b = 0 THEN a ELSE GCD(b, a % b)

AbsInt(n) == IF n < 0 THEN -n ELSE n

Num(n, d) ==
    LET g == GCD(AbsInt(n), d)
    IN  [t |-> "num", n |-> n \div g, d |-> d \div g]

NaN  == [t |-> "nan",  n |-> 0, d |-> 1]
None == [t |-> "none", n |-> 0, d |-> 1]
Text == [t |-> "text", n |-> 0, d |-> 1]

IsNum(x)  == x.t = "num"
IsNone(x) == x.t = "none"
\* pandas isna(): NaN and None are missing
IsNa(x) == x.t \in {"nan", "none"}

\* float arithmetic: NaN in, NaN out
Add(a, b) == IF IsNum(a) /\ IsNum(b) THEN Num(a.n * b.d + b.n * a.d, a.d * b.d) ELSE NaN
Sub(a, b) == IF IsNum(a) /\ IsNum(b) THEN Num(a.n * b.d - b.n * a.d, a.d * b.d) ELSE NaN
Div(a, b) ==
    IF IsNum(a) /\ IsNum(b) /\ b.n # 0
    THEN IF b.n > 0 THEN Num(a.n * b.d, a.d * b.n) ELSE Num(-(a.n * b.d), a.d * (-b.n))
    ELSE NaN
Abs(a) == IF IsNum(a) THEN Num(AbsInt(a.n), a.d) ELSE a

\* float comparisons: every comparison with NaN is False
Lt(a, b) == IsNum(a) /\ IsNum(b) /\ a.n * b.d < b.n * a.d
Le(a, b) == IsNum(a) /\ IsNum(b) /\ a.n * b.d <= b.n * a.d
Gt(a, b) == Lt(b, a)

\* an ordering comparison with None raises TypeError
CmpRaises(a, b) == IsNone(a) \/ IsNone(b)

(***************************************************************************)
(* DataFrames: column labels and rows of cells, row i being index i - 1.   *)
(* A text cell that no rule inspects is the value Text.                    *)
(***************************************************************************)
DataFrame(columns, rows) == [columns |-> Tup(columns), rows |-> Tup(rows)]

HasCol(df, c) == \E i \in 1..Len(df.columns) : df.columns[i] = c

ColIdx(df, c) == CHOOSE i \in 1..Len(df.columns) : df.columns[i] = c

\* row[c]
Get(df, row, c) == row[ColIdx(df, c)]

\* df[c]
Column(df, c) == Tup([r \in 1..Len(df.rows) |-> Get(df, df.rows[r], c)])

\* df[c] = values: replaces the column labelled c, or appends a new one
SetColumn(df, c, values) ==
    IF HasCol(df, c)
    THEN DataFrame(df.columns,
                   [r \in 1..Len(df.rows) |->
                       [df.rows[r] EXCEPT ![ColIdx(df, c)] = values[r]]])
    ELSE DataFrame(Append(df.columns, c),
                   [r \in 1..Len(df.rows) |-> Append(df.rows[r], values[r])])

(***************************************************************************)
(* preprocessing.py                                                        *)
(***************************************************************************)
\* COLUMN_ALIASES, in the dict's insertion order
COLUMN_ALIASES ==
    << [std |-> s_api_name,    aliases |-> <<a_api_name_sp, s_api_name, a_api>>],
       [std |-> s_api_code,    aliases |-> <<a_api_code_sp, s_api_code>>],
       [std |-> s_stress_type, aliases |-> <<a_stress_type_sp, a_stress_typ, s_stress_type, a_stress>>],
       [std |-> s_time_months, aliases |-> <<a_time, a_time_mon, s_time_months, a_months, a_time_month>>],
       [std |-> s_api_assay,   aliases |-> <<a_api_assay_sp, s_api_assay, a_api_assay_percent,
                                             a_api_assay_percent_sp, a_assay, a_assay_percent>>] >>

\* clean in aliases
InList(x, list) == \E i \in 1..Len(list) : list[i] = x

\* the alias loop: the first std whose alias list holds clean, if any
AliasMatches(clean) == {k \in 1..Len(COLUMN_ALIASES) : InList(clean, COLUMN_ALIASES[k].aliases)}

FirstAlias(clean) ==
    COLUMN_ALIASES[CHOOSE k \in AliasMatches(clean) : \A j \in AliasMatches(clean) : k <= j].std

\* the "Auto-detect degradants" test of normalize_columns
IsDegradantLike(clean) == Contains(s_degradant, clean)

\* col_map.get(col, col) for clean = col.strip().lower(): the degradant rule is
\* applied after, and overrides, the alias rule
RenamedFrom(col, clean) ==
    IF IsDegradantLike(clean) THEN replace(clean, s_space, s_underscore)
    ELSE IF AliasMatches(clean) # {} THEN FirstAlias(clean)
    ELSE col

RenamedColumn(col) == TheOne({RenamedFrom(col, clean) : clean \in {lower(strip(col))}})

normalize_columns(df) ==
    DataFrame([i \in 1..Len(df.columns) |-> RenamedColumn(df.columns[i])], df.rows)

IsDegradantColumn(c) == startswith(c, s_degradant_)

\* the list comprehension keeps the columns' order
detect_degradant_columns(df) == SelectSeq(df.columns, IsDegradantColumn)

\* pd.to_numeric(errors="coerce") on one cell
to_numeric(x) == IF x.t = "text" THEN NaN ELSE x

CoerceColumns(df, numeric_cols) ==
    DataFrame(df.columns,
              [r \in 1..Len(df.rows) |->
                  Tup([i \in 1..Len(df.columns) |->
                      IF InList(df.columns[i], numeric_cols)
                      THEN to_numeric(df.rows[r][i]) ELSE df.rows[r][i]])])

RowAllNa(row) == \A i \in 1..Len(row) : IsNa(row[i])

RowNotAllNa(row) == ~RowAllNa(row)

\* df.dropna(how="all").reset_index(drop=True)
dropna_all(df) == DataFrame(df.columns, SelectSeq(df.rows, RowNotAllNa))

\* variant: sum(axis=1, skipna=False), a missing cell makes the total missing
RECURSIVE SumPropagateNa(_)
SumPropagateNa(cells) ==
    IF cells = <<>> THEN Num(0, 1) ELSE Add(cells[1], SumPropagateNa(Tail(cells)))

\* one row of df[degradant_cols].sum(axis=1): missing cells are skipped
RECURSIVE SumSkipNa(_)
SumSkipNa(cells) ==
    IF cells = <<>> THEN Num(0, 1)
    ELSE IF IsNum(cells[1]) THEN Add(cells[1], SumSkipNa(Tail(cells)))
    ELSE SumSkipNa(Tail(cells))

RowTotalDegradants(df, row, degradant_cols) ==
    SumSkipNa(Tup([k \in 1..Len(degradant_cols) |-> Get(df, row, degradant_cols[k])]))

\* the lambda of preprocessing.py:131-134
RmbLambda(df, row) ==
    IF Gt(Sub(Num(100, 1), Get(df, row, s_api_assay)), Num(0, 1))
    THEN Div(Get(df, row, s_total_degradants), Sub(Num(100, 1), Get(df, row, s_api_assay)))
    ELSE None

\* df.apply(..., axis=1) builds a Series from the per-row results: floats mixed
\* with None become float64 with NaN; results that are all None stay an object
\* column of None
SeriesOf(results) ==
    IF \A r \in 1..Len(results) : IsNone(results[r]) THEN results
    ELSE Tup([r \in 1..Len(results) |-> IF IsNone(results[r]) THEN NaN ELSE results[r]])

\* df["RMB"] - 1: on an object column the operation is applied to the
\* non-missing values only and the others become NaN
SeriesMinusOne(col) ==
    Tup([r \in 1..Len(col) |-> IF IsNum(col[r]) THEN Sub(col[r], Num(1, 1)) ELSE NaN])

COMBINED_UNCERTAINTY == Num(5, 2)

IssueRow(idx, issues) == [Row |-> idx, Issues |-> issues]

\* variant: the checks chained with elif, so that only the first failing one is kept
RowIssuesFirstOnly(df, row) ==
    IF ~(Le(Num(0, 1), Get(df, row, s_api_assay)) /\ Le(Get(df, row, s_api_assay), Num(100, 1)))
    THEN <<s_API_assay_out_of_range>>
    ELSE IF Lt(Get(df, row, s_total_degradants), Num(0, 1))
    THEN <<s_Negative_degradants>>
    ELSE IF Lt(Add(Get(df, row, s_api_assay), Get(df, row, s_total_degradants)), Num(90, 1))
    THEN <<s_Suspicious_mass_loss>>
    ELSE <<>>

\* the three checks of validate_and_clean on one row, in the code's order
RowIssues(df, row) ==
    (IF ~(Le(Num(0, 1), Get(df, row, s_api_assay)) /\ Le(Get(df, row, s_api_assay), Num(100, 1)))
     THEN <<s_API_assay_out_of_range>> ELSE <<>>)
    \o
    (IF Lt(Get(df, row, s_total_degradants), Num(0, 1))
     THEN <<s_Negative_degradants>> ELSE <<>>)
    \o
    (IF Lt(Add(Get(df, row, s_api_assay), Get(df, row, s_total_degradants)), Num(90, 1))
     THEN <<s_Suspicious_mass_loss>> ELSE <<>>)

RECURSIVE CollectIssues(_, _)
CollectIssues(df, r) ==
    IF r > Len(df.rows) THEN <<>>
    ELSE (IF RowIssues(df, df.rows[r]) # <<>>
          THEN <<IssueRow(r - 1, join(s_comma_space, RowIssues(df, df.rows[r])))>>
          ELSE <<>>)
         \o CollectIssues(df, r + 1)

\* returns (df, issues): the frame itself and the issue records
validate_and_clean(df) == <<df, CollectIssues(df, 1)>>

NoError == [type |-> "", msg |-> "", names |-> {}]

required == {s_api_assay, s_stress_type, s_time_months}

MissingRequired(df) == required \ {df.columns[i] : i \in 1..Len(df.columns)}

\* preprocessing.py:115-120
Coerced(df, degradant_cols) ==
    dropna_all(CoerceColumns(df, <<s_api_assay, s_time_months>> \o degradant_cols))

\* preprocessing.py:125
WithTotalDegradants(df, degradant_cols) ==
    SetColumn(df, s_total_degradants,
              [r \in 1..Len(df.rows) |-> RowTotalDegradants(df, df.rows[r], degradant_cols)])

\* preprocessing.py:127
WithAMB(df) ==
    SetColumn(df, s_AMB,
              [r \in 1..Len(df.rows) |-> Add(Get(df, df.rows[r], s_api_assay), Get(df, df.rows[r], s_total_degradants))])

\* variant: the absolute deviation of calculation_functions.calculate_ambd
WithAbsoluteAMBD(df) ==
    SetColumn(df, s_AMBD,
              [r \in 1..Len(df.rows) |-> Abs(Sub(Get(df, df.rows[r], s_AMB), Num(100, 1)))])

\* preprocessing.py:128
WithAMBD(df) ==
    SetColumn(df, s_AMBD,
              [r \in 1..Len(df.rows) |-> Sub(Get(df, df.rows[r], s_AMB), Num(100, 1))])

\* preprocessing.py:130-136
WithRMB(df) ==
    SetColumn(df, s_RMB, SeriesOf(Tup([r \in 1..Len(df.rows) |-> RmbLambda(df, df.rows[r])])))

\* preprocessing.py:138
WithRMBD(df) == SetColumn(df, s_RMBD, SeriesMinusOne(Column(df, s_RMB)))

\* variant: the deviation is not divided by the uncertainty
WithUnscaledZ_MB(df) ==
    SetColumn(df, s_Z_MB,
              [r \in 1..Len(df.rows) |-> Sub(Get(df, df.rows[r], s_AMB), Num(100, 1))])

\* preprocessing.py:141-142
WithZ_MB(df) ==
    SetColumn(df, s_Z_MB,
              [r \in 1..Len(df.rows) |-> Div(Sub(Get(df, df.rows[r], s_AMB), Num(100, 1)), COMBINED_UNCERTAINTY)])

\* the statements of preprocessing.py:115-142 in order, each on the frame the
\* one before it left
CoreCalculations(df, degradant_cols) ==
    TheOne({ WithZ_MB(d6) : d6 \in
           { WithRMBD(d5) : d5 \in
           { WithRMB(d4) : d4 \in
           { WithAMBD(d3) : d3 \in
           { WithAMB(d2) : d2 \in
           { WithTotalDegradants(d1, degradant_cols) : d1 \in
           { Coerced(df, degradant_cols) } } } } } } })

Raise(type, msg, names) ==
    [raised |-> TRUE, error |-> [type |-> type, msg |-> msg, names |-> names],
     df |-> DataFrame(<<>>, <<>>), issues |-> <<>>]

Return(pair) == [raised |-> FALSE, error |-> NoError, df |-> pair[1], issues |-> pair[2]]

\* preprocess_input on the normalized frame: what it raises, or the pair it returns
PreprocessNormalized(df, degradant_cols) ==
    IF MissingRequired(df) # {}
    THEN Raise("ValueError", "Missing required columns", MissingRequired(df))
    ELSE IF degradant_cols = <<>>
    THEN Raise("ValueError", "No degradant columns detected", {})
    ELSE TheOne({ Return(pair) : pair \in
                { validate_and_clean(d) : d \in {CoreCalculations(df, degradant_cols)} } })

preprocess_input(df_raw) ==
    TheOne({ TheOne({ PreprocessNormalized(df, degradant_cols) :
                        degradant_cols \in {detect_degradant_columns(df)} }) :
                df \in {normalize_columns(df_raw)} })

(***************************************************************************)
(* recommendation_logic.py                                                 *)
(***************************************************************************)
\* what a call evaluates to when it raises TypeError instead of returning
TypeError == <<"TypeError">>

\* returns (interpretation, advice); z_mb is None only for a Python None
interpret_z_mb(z_mb) ==
    IF IsNone(z_mb) THEN <<s_Invalid_Z_MB, "Check uncertainty inputs">>
    ELSE IF Le(Abs(z_mb), Num(2, 1)) THEN <<s_Within_analytical_variability, "Acceptable">>
    ELSE IF Lt(z_mb, Num(-2, 1)) THEN <<s_Statistically_significant_mass_loss, "Investigate imbalance">>
    ELSE <<s_Statistically_significant_over_recovery, "Check response factors">>

\* variant: rule 3 written 0.8 < rmb <= 1.2
diagnostic_zone_strict(amb, rmb, z_mb) ==
    IF IsNone(z_mb) THEN TypeError
    ELSE IF Le(Abs(z_mb), Num(2, 1)) THEN Zone1_label
    ELSE IF CmpRaises(amb, Num(98, 1)) THEN TypeError
    ELSE IF Lt(amb, Num(98, 1)) /\ CmpRaises(rmb, Num(4, 5)) THEN TypeError
    ELSE IF Lt(amb, Num(98, 1)) /\ Lt(rmb, Num(4, 5)) THEN Zone2_label
    ELSE IF Lt(amb, Num(98, 1)) /\ Lt(Num(4, 5), rmb) /\ Le(rmb, Num(6, 5)) THEN Zone3_physical_label
    ELSE IF Gt(amb, Num(102, 1)) /\ CmpRaises(rmb, Num(6, 5)) THEN TypeError
    ELSE IF Gt(amb, Num(102, 1)) /\ Gt(rmb, Num(6, 5)) THEN Zone4_label
    ELSE Zone3_default_label

\* 'and' evaluates its right operand only when the left one is true, so a
\* None rmb raises only in a rule whose amb test has passed
diagnostic_zone(amb, rmb, z_mb) ==
    IF IsNone(z_mb) THEN TypeError
    ELSE IF Le(Abs(z_mb), Num(2, 1)) THEN Zone1_label
    ELSE IF CmpRaises(amb, Num(98, 1)) THEN TypeError
    ELSE IF Lt(amb, Num(98, 1)) /\ CmpRaises(rmb, Num(4, 5)) THEN TypeError
    ELSE IF Lt(amb, Num(98, 1)) /\ Lt(rmb, Num(4, 5)) THEN Zone2_label
    ELSE IF Lt(amb, Num(98, 1)) /\ Le(Num(4, 5), rmb) /\ Le(rmb, Num(6, 5)) THEN Zone3_physical_label
    ELSE IF Gt(amb, Num(102, 1)) /\ CmpRaises(rmb, Num(6, 5)) THEN TypeError
    ELSE IF Gt(amb, Num(102, 1)) /\ Gt(rmb, Num(6, 5)) THEN Zone4_label
    ELSE Zone3_default_label

\* variant: zone 3 recognised by the whole text of its first label
recommended_action_by_label(zone) ==
    IF Contains(s_Zone_1, zone) THEN s_No_investigation_required
    ELSE IF Contains(s_Zone_2, zone) THEN s_Search_for_additional_degradants
    ELSE IF Contains(Zone3_physical_label, zone) THEN s_Investigate_physical_loss
    ELSE IF Contains(s_Zone_4, zone) THEN s_Review_response_factors
    ELSE s_Expert_review_required

recommended_action(zone) ==
    IF Contains(s_Zone_1, zone) THEN s_No_investigation_required
    ELSE IF Contains(s_Zone_2, zone) THEN s_Search_for_additional_degradants
    ELSE IF Contains(s_Zone_3, zone) THEN s_Investigate_physical_loss
    ELSE IF Contains(s_Zone_4, zone) THEN s_Review_response_factors
    ELSE s_Expert_review_required

(***************************************************************************)
(* app.py: the static recommendation matrix.  A range text "lo-hi" is read *)
(* as lo <= x <= hi, "<v" as x < v and ">v" as x > v.                      *)
(***************************************************************************)
Between(lo, hi) == [kind |-> "between", lo |-> lo, hi |-> hi]
Below(v)        == [kind |-> "below",   lo |-> v,  hi |-> v]
Above(v)        == [kind |-> "above",   lo |-> v,  hi |-> v]

InRange(x, range) ==
    CASE range.kind = "between" -> Le(range.lo, x) /\ Le(x, range.hi)
      [] range.kind = "below"   -> Lt(x, range.lo)
      [] range.kind = "above"   -> Gt(x, range.lo)

rec_matrix ==
    << [AMB_Range |-> Between(Num(98, 1), Num(102, 1)), RMB_Range |-> Between(Num(4, 5), Num(6, 5)),
        Recommended_Action |-> m_No_action_required],
       [AMB_Range |-> Below(Num(98, 1)), RMB_Range |-> Below(Num(4, 5)),
        Recommended_Action |-> m_Orthogonal_testing],
       [AMB_Range |-> Below(Num(98, 1)), RMB_Range |-> Between(Num(4, 5), Num(6, 5)),
        Recommended_Action |-> m_Investigate_physical_loss],
       [AMB_Range |-> Above(Num(102, 1)), RMB_Range |-> Above(Num(6, 5)),
        Recommended_Action |-> m_Verify_RRFs] >>

\* the columns the final results table selects (app.py:128-144)
result_columns ==
    <<s_api_name, s_api_code, s_stress_type, s_time_months, s_api_assay, s_total_degradants,
      s_AMB, s_AMBD, s_RMB, s_RMBD, s_Z_MB, s_Z_MB_Interpretation, s_Diagnostic_Zone,
      s_Recommended_Action>>

(***************************************************************************)
(* The tables offered to the app                                           *)
(***************************************************************************)
\* rows of one table
MaxRows == 2
\* degradant-like columns of a table whose header spellings vary
MaxDegCols == 2

NoFrame == DataFrame(<<>>, <<>>)

\* Tables with the usual header and varying cells: one row drawn from
\* SubjectRows, placed among up to MaxRows - 1 rows of CompanionRows.
ValueHeader ==
    <<h_API_Name, h_API_Code, h_API_Assay, h_Stress_Type, h_Time, h_Degradant_A, h_Degradant_B>>

AssayCells ==
    {Text, Num(-5, 1), Num(60, 1), Num(90, 1), Num(97, 1), Num(100, 1), Num(105, 1)}

DegACells ==
    {Text, Num(-12, 1), Num(2, 1), Num(5, 1), Num(15, 1), Num(16, 1), Num(32, 1), Num(34, 1), Num(48, 1)}

DegBCells == {NaN, Num(1, 2)}

SubjectRows ==
    {<<Text, Text, a, Text, Num(3, 1), dA, dB>> : a \in AssayCells, dA \in DegACells, dB \in DegBCells}

BlankRow == <<NaN, NaN, NaN, NaN, NaN, NaN, NaN>>

CompanionRows ==
    { BlankRow,
      <<Text, Text, Num(99, 1), Text, Num(3, 1), Num(1, 1), NaN>>,
      <<Text, Text, Num(105, 1), Text, Num(6, 1), Num(3, 1), NaN>> }

CompanionSeqs == UNION {[1..n -> CompanionRows] : n \in 0..(MaxRows - 1)}

InsertAt(seq, p, x) == SubSeq(seq, 1, p - 1) \o <<x>> \o SubSeq(seq, p, Len(seq))

ValueTables ==
    UNION { {DataFrame(ValueHeader, InsertAt(cs, p, s)) : p \in 1..(Len(cs) + 1), s \in SubjectRows}
            : cs \in CompanionSeqs }

\* Tables with two fixed rows and varying header spellings.  A field is a
\* column label with its two cells.
Field(label, c1, c2) == [label |-> label, cells |-> <<c1, c2>>]

IdFields ==
    { <<>>, <<Field(h_API_Name, Text, Text)>>,
      <<Field(h_API_Name, Text, Text), Field(h_API_Code, Text, Text)>> }

AssayFields ==
    {<<>>} \cup {<<Field(h, Num(90, 1), Num(105, 1))>> :
                    h \in {h_API_Assay, h_api_assay_padded, h_Assay_pct}}

StressFields == {<<>>} \cup {<<Field(h, Text, Text)>> : h \in {h_Stress_Type, h_STRESS}}

TimeFields == {<<>>, <<Field(h_Time_Months, Num(3, 1), Num(6, 1))>>}

DegLabels ==
    <<h_Degradant_A, h_degradant_b_padded, h_Total_Degradants, h_Known_Degradant_X,
      h_Degradants, h_Impurity_A>>

\* the cells of the k-th degradant-like column
DegCellsAt(k) == IF k = 1 THEN <<Num(2, 1), Num(3, 1)>> ELSE <<Num(4, 1), Text>>

\* up to MaxDegCols of the labels, in the order of DegLabels
DegLabelChoices ==
    { SelectSeq(DegLabels, LAMBDA h : h \in chosen) :
        chosen \in {c \in SUBSET {DegLabels[i] : i \in 1..Len(DegLabels)} :
                        Cardinality(c) <= MaxDegCols} }

DegFields ==
    { Tup([k \in 1..Len(f) |-> Field(f[k], DegCellsAt(k)[1], DegCellsAt(k)[2])]) :
        f \in DegLabelChoices }

FrameOfFields(fields) ==
    DataFrame([i \in 1..Len(fields) |-> fields[i].label],
              [r \in 1..2 |-> Tup([i \in 1..Len(fields) |-> fields[i].cells[r]])])

HeaderTables ==
    { FrameOfFields(ids \o assay \o stress \o time \o degs) :
        ids \in IdFields, assay \in AssayFields, stress \in StressFields,
        time \in TimeFields, degs \in DegFields }

\* the table standing for sample_data.csv: the four scenarios of the
\* documentation (assay, one degradant)
SampleTable ==
    DataFrame(<<h_API_Name, h_API_Code, h_API_Assay, h_Stress_Type, h_Time, h_Degradant_A>>,
              << <<Text, Text, Num(99, 1),  Text, Num(0, 1), Num(1, 1)>>,
                 <<Text, Text, Num(90, 1),  Text, Num(3, 1), Num(2, 1)>>,
                 <<Text, Text, Num(95, 1),  Text, Num(6, 1), Num(4, 1)>>,
                 <<Text, Text, Num(105, 1), Text, Num(6, 1), Num(3, 1)>> >>)

\* a table whose rows would all be dropped is not offered: what the
\* calculations do on a frame without rows depends on the pandas version
Offered(df) ==
    \E norm \in {normalize_columns(df)} :
        \/ MissingRequired(norm) # {}
        \/ \E degradant_cols \in {detect_degradant_columns(norm)} :
               \/ degradant_cols = <<>>
               \/ Len(Coerced(norm, degradant_cols).rows) >= 1

Uploads == {df \in ValueTables \cup HeaderTables : Offered(df)}

(***************************************************************************)
(* app.py: one run of the script, section by section.  pc names the        *)
(* section about to run; st.stop() and an uncaught exception end the run   *)
(* ("stopped").  rendered lists what has been put on the page.             *)
(***************************************************************************)
EmptyTable == DataFrame(ValueHeader, <<>>)

Init ==
    /\ pc = "load"
    /\ raw_df = NoFrame
    /\ clean_df = NoFrame
    /\ issues_df = <<>>
    /\ error = NoError
    /\ rendered = <<>>

Stop(type, msg, names, shown) ==
    /\ pc' = "stopped"
    /\ error' = [type |-> type, msg |-> msg, names |-> names]
    /\ rendered' = rendered \o shown

\* use_sample: sample_data.csv is read
LoadSample ==
    /\ pc = "load"
    /\ raw_df' = SampleTable
    /\ pc' = "validate"
    /\ rendered' = Append(rendered, "success: Sample dataset loaded")
    /\ UNCHANGED <<clean_df, issues_df, error>>

\* use_sample: reading sample_data.csv raises
LoadSampleFails ==
    /\ pc = "load"
    /\ Stop("Exception", "Failed to load sample data", {}, <<"error: Failed to load sample data">>)
    /\ UNCHANGED <<raw_df, clean_df, issues_df>>

\* no file has been uploaded
NoUpload ==
    /\ pc = "load"
    /\ Stop("", "", {}, <<"info: Upload a dataset or enable sample data.">>)
    /\ UNCHANGED <<raw_df, clean_df, issues_df>>

\* load_data returns the uploaded table
Upload ==
    /\ pc = "load"
    /\ \E df \in Uploads \cup {EmptyTable} : raw_df' = df
    /\ pc' = "validate"
    /\ UNCHANGED <<clean_df, issues_df, error, rendered>>

\* load_data catches the reader's exception and returns None
UploadUnreadable ==
    /\ pc = "load"
    /\ raw_df' = NoFrame
    /\ pc' = "validate"
    /\ rendered' = Append(rendered, "error: Failed to read file")
    /\ UNCHANGED <<clean_df, issues_df, error>>

\* raw_df is None or raw_df.empty
IsEmpty(df) == Len(df.columns) = 0 \/ Len(df.rows) = 0

ValidateData ==
    /\ pc = "validate"
    /\ IF IsEmpty(raw_df)
       THEN Stop("", "Dataset is empty or unreadable.", {}, <<"error: Dataset is empty or unreadable.">>)
       ELSE /\ pc' = "preprocess"
            /\ rendered' = rendered \o <<"success: Data loaded successfully", "Raw Input Data">>
            /\ error' = error
    /\ UNCHANGED <<raw_df, clean_df, issues_df>>

Preprocessing ==
    /\ pc = "preprocess"
    /\ \E out \in {preprocess_input(raw_df)} :
           IF out.raised
           THEN /\ Stop(out.error.type, out.error.msg, out.error.names, <<"error: Preprocessing failed">>)
                /\ UNCHANGED <<clean_df, issues_df>>
           ELSE /\ clean_df' = out.df
                /\ issues_df' = out.issues
                /\ pc' = "quality"
                /\ rendered' = Append(rendered, "Normalized & Cleaned Data")
                /\ error' = error
    /\ UNCHANGED raw_df

DataQualityReport ==
    /\ pc = "quality"
    /\ rendered' = rendered \o
          (IF issues_df = <<>>
           THEN <<"Data Quality Report", "success: No data quality issues detected.">>
           ELSE <<"Data Quality Report", "warning: Potential data inconsistencies detected", "issues_df">>)
    /\ pc' = "interpret"
    /\ UNCHANGED <<raw_df, clean_df, issues_df, error>>

\* the three column assignments of app.py:110-121
ZoneOfRow(df, row) == diagnostic_zone(Get(df, row, s_AMB), Get(df, row, s_RMB), Get(df, row, s_Z_MB))

WithInterpretation(df) ==
    SetColumn(df, s_Z_MB_Interpretation,
              [r \in 1..Len(df.rows) |-> interpret_z_mb(Get(df, df.rows[r], s_Z_MB))[1]])

WithZone(df) ==
    SetColumn(df, s_Diagnostic_Zone, [r \in 1..Len(df.rows) |-> ZoneOfRow(df, df.rows[r])])

WithAction(df) ==
    SetColumn(df, s_Recommended_Action,
              [r \in 1..Len(df.rows) |-> recommended_action(Get(df, df.rows[r], s_Diagnostic_Zone))])

ZoneRaises(df) == \E r \in 1..Len(df.rows) : ZoneOfRow(df, df.rows[r]) = TypeError

InterpretationLogic ==
    /\ pc = "interpret"
    /\ \E df1 \in {WithInterpretation(clean_df)} :
           IF ZoneRaises(df1)
           THEN /\ clean_df' = df1
                /\ Stop("TypeError", "not supported between instances of 'NoneType' and 'float'", {},
                        <<"exception: TypeError">>)
           ELSE /\ \E df2 \in {WithZone(df1)} : clean_df' = WithAction(df2)
                /\ pc' = "results"
                /\ UNCHANGED <<error, rendered>>
    /\ UNCHANGED <<raw_df, issues_df>>

\* clean_df[[...]] raises KeyError when a listed column is absent
MissingResultColumns(df) ==
    {result_columns[i] : i \in 1..Len(result_columns)} \ {df.columns[i] : i \in 1..Len(df.columns)}

FinalResults ==
    /\ pc = "results"
    /\ IF MissingResultColumns(clean_df) # {}
       THEN Stop("KeyError", "not in index", MissingResultColumns(clean_df),
                 <<"Final Diagnostic Results", "exception: KeyError">>)
       ELSE /\ pc' = "matrix"
            /\ rendered' = rendered \o <<"Final Diagnostic Results", "result_df">>
            /\ error' = error
    /\ UNCHANGED <<raw_df, clean_df, issues_df>>

RecommendationMatrix ==
    /\ pc = "matrix"
    /\ rendered' = rendered \o <<"Recommendation Matrix", "rec_matrix">>
    /\ pc' = "charts"
    /\ UNCHANGED <<raw_df, clean_df, issues_df, error>>

Visualizations ==
    /\ pc = "charts"
    /\ rendered' = rendered \o <<"AMB-RMB Diagnostic Map", "Z_MB Risk Indicator">>
    /\ pc' = "comparison"
    /\ UNCHANGED <<raw_df, clean_df, issues_df, error>>

ComparativeAnalysis ==
    /\ pc = "comparison"
    /\ rendered' = rendered \o <<"Comparative Analysis", "comparison_df", "metric: Results Within Analytical Variability">>
    /\ pc' = "done"
    /\ UNCHANGED <<raw_df, clean_df, issues_df, error>>

Next ==
    \/ LoadSample
    \/ LoadSampleFails
    \/ NoUpload
    \/ Upload
    \/ UploadUnreadable
    \/ ValidateData
    \/ Preprocessing
    \/ DataQualityReport
    \/ InterpretationLogic
    \/ FinalResults
    \/ RecommendationMatrix
    \/ Visualizations
    \/ ComparativeAnalysis

Spec == Init /\ [][Next]_vars

(***************************************************************************)
(* Properties                                                              *)
(***************************************************************************)
\* preprocess_input has returned: clean_df holds the derived columns
Returned == HasCol(clean_df, s_Z_MB)

\* the interpretation step has completed: every row has its zone and action
Classified == HasCol(clean_df, s_Recommended_Action)

Rows == {clean_df.rows[r] : r \in 1..Len(clean_df.rows)}

Cell(row, c) == Get(clean_df, row, c)

\* comparisons of a cell (a fraction n/d) with an integer, by cross-multiplication
AtLeast(x, k) == IsNum(x) /\ x.n >= k * x.d
AtMost(x, k)  == IsNum(x) /\ x.n <= k * x.d
Under(x, k)   == IsNum(x) /\ x.n < k * x.d
Over(x, k)    == IsNum(x) /\ x.n > k * x.d

\* the decision list of the zone classifier, a missing value failing every
\* condition it occurs in
RuleLabel(amb, rmb, z_mb) ==
    IF AtLeast(z_mb, -2) /\ AtMost(z_mb, 2) THEN Zone1_label
    ELSE IF Under(amb, 98) /\ IsNum(rmb) /\ 5 * rmb.n < 4 * rmb.d THEN Zone2_label
    ELSE IF Under(amb, 98) /\ IsNum(rmb) /\ 5 * rmb.n >= 4 * rmb.d /\ 5 * rmb.n <= 6 * rmb.d
         THEN Zone3_physical_label
    ELSE IF Over(amb, 102) /\ IsNum(rmb) /\ 5 * rmb.n > 6 * rmb.d THEN Zone4_label
    ELSE Zone3_default_label

\* C1: on every row the pipeline hands to the classifier, diagnostic_zone
\* returns, without raising, the label of the first rule of the decision list
\* that holds, a missing RMB failing the RMB conditions of rules 2-4.
C1_ZoneIsFirstMatchingRule ==
    Returned =>
        \A row \in Rows :
            ZoneOfRow(clean_df, row) = RuleLabel(Cell(row, s_AMB), Cell(row, s_RMB), Cell(row, s_Z_MB))

\* C2: every row's derived fields are the fixed formulas of its own api_assay
\* and total_degradants: AMB = api_assay + total_degradants, AMBD = AMB - 100
\* (signed), Z_MB = (AMB - 100) / 2.5, RMB = total_degradants / (100 - api_assay)
\* when api_assay < 100 and missing otherwise, RMBD = RMB - 1 (signed) and
\* missing when RMB is.
DerivedFieldsOf(row) ==
    LET a    == Cell(row, s_api_assay)
        t    == Cell(row, s_total_degradants)
        amb  == Cell(row, s_AMB)
        ambd == Cell(row, s_AMBD)
        rmb  == Cell(row, s_RMB)
        rmbd == Cell(row, s_RMBD)
        z    == Cell(row, s_Z_MB)
    IN  /\ IsNum(t)
        /\ IF IsNum(a)
           THEN /\ IsNum(amb) /\ IsNum(ambd) /\ IsNum(z)
                /\ amb.n * a.d * t.d = (a.n * t.d + t.n * a.d) * amb.d
                /\ ambd.n * amb.d = (amb.n - 100 * amb.d) * ambd.d
                /\ 5 * z.n * amb.d = 2 * (amb.n - 100 * amb.d) * z.d
           ELSE IsNa(amb) /\ IsNa(ambd) /\ IsNa(z)
        /\ IF Under(a, 100)
           THEN /\ IsNum(rmb) /\ IsNum(rmbd)
                /\ rmb.n * (100 * a.d - a.n) * t.d = t.n * a.d * rmb.d
                /\ rmbd.n * rmb.d = (rmb.n - rmb.d) * rmbd.d
           ELSE IsNa(rmb) /\ IsNa(rmbd)

C2_DerivedFields == Returned => \A row \in Rows : DerivedFieldsOf(row)

\* a table with a row below 100 (negative deviation, fractional RMB) beside a
\* row at or above 100 (RMB missing)
C2_Witness ==
    /\ Returned
    /\ \E row \in Rows :
          /\ Under(Cell(row, s_api_assay), 100) /\ Under(Cell(row, s_AMBD), 0)
          /\ IsNum(Cell(row, s_RMB)) /\ Cell(row, s_RMB).d > 1
    /\ \E row \in Rows : AtLeast(Cell(row, s_api_assay), 100) /\ IsNa(Cell(row, s_RMB))

\* the zone number of a label, read from its leading "Zone N"
ZoneNumber(label) == label[6]

ActionOfZoneNumber(n) ==
    CASE n = "1" -> s_No_investigation_required
      [] n = "2" -> s_Search_for_additional_degradants
      [] n = "3" -> s_Investigate_physical_loss
      [] n = "4" -> s_Review_response_factors

ZoneLabels == {Zone1_label, Zone2_label, Zone3_physical_label, Zone4_label, Zone3_default_label}

\* C3: the action of every classified row is the fixed action of its label's
\* zone number, the same for both Zone 3 labels, and never the default
\* "Expert review required".
C3_ActionByZoneNumber ==
    Classified =>
        \A row \in Rows :
            /\ Cell(row, s_Diagnostic_Zone) \in ZoneLabels
            /\ ZoneNumber(Cell(row, s_Diagnostic_Zone)) \in {"1", "2", "3", "4"}
            /\ Cell(row, s_Recommended_Action) = ActionOfZoneNumber(ZoneNumber(Cell(row, s_Diagnostic_Zone)))
            /\ Cell(row, s_Recommended_Action) # s_Expert_review_required

\* a table with both Zone 3 labels, each with the Zone 3 action
C3_Witness ==
    /\ Classified
    /\ \E r1, r2 \in Rows :
          /\ Cell(r1, s_Diagnostic_Zone) = Zone3_physical_label
          /\ Cell(r2, s_Diagnostic_Zone) = Zone3_default_label
          /\ Cell(r1, s_Recommended_Action) = s_Investigate_physical_loss
          /\ Cell(r2, s_Recommended_Action) = s_Investigate_physical_loss

\* C9: a classified row is Zone 1 exactly when 95 <= AMB <= 105, and exactly
\* when its Z_MB Interpretation is "Within analytical variability"; rules 2-4
\* label only rows with AMB < 95 or AMB > 105; a row with missing AMB is never
\* Zone 1.
C9_ZoneOneBand ==
    Classified =>
        \A row \in Rows :
            LET amb  == Cell(row, s_AMB)
                zone == Cell(row, s_Diagnostic_Zone)
                band == AtLeast(amb, 95) /\ AtMost(amb, 105)
            IN  /\ (zone = Zone1_label) <=> band
                /\ (Cell(row, s_Z_MB_Interpretation) = s_Within_analytical_variability) <=> band
                /\ zone \in {Zone2_label, Zone3_physical_label, Zone4_label}
                      => Under(amb, 95) \/ Over(amb, 105)
                /\ IsNa(amb) => zone # Zone1_label

\* a row on an edge of the band is Zone 1, beside a row outside the band with
\* another label
C9_Witness ==
    /\ Classified
    /\ \E row \in Rows :
          /\ Cell(row, s_AMB) \in {Num(95, 1), Num(105, 1)}
          /\ Cell(row, s_Diagnostic_Zone) = Zone1_label
          /\ Cell(row, s_Z_MB_Interpretation) = s_Within_analytical_variability
    /\ \E row \in Rows :
          /\ Over(Cell(row, s_AMB), 105)
          /\ Cell(row, s_Diagnostic_Zone) # Zone1_label

RawColumns == 1..Len(raw_df.columns)

CleanName(i) == lower(strip(raw_df.columns[i]))

DegradantLike == {i \in RawColumns : Contains(s_degradant, CleanName(i))}

Detected == {i \in RawColumns : startswith(RenamedColumn(raw_df.columns[i]), s_degradant_)}

NormalizedNames == {RenamedColumn(raw_df.columns[i]) : i \in RawColumns}

SchemaFails ==
    \/ ~({s_api_assay, s_stress_type, s_time_months} \subseteq NormalizedNames)
    \/ Detected = {}

\* twice a cell's value (the inputs are multiples of 1/2), a missing or
\* unparsable cell counting 0
Twice(x) == IF x.t = "num" THEN (2 * x.n) \div x.d ELSE 0

RECURSIVE TwiceSum(_, _)
TwiceSum(row, idxs) ==
    IF idxs = {} THEN 0
    ELSE LET i == CHOOSE j \in idxs : TRUE
         IN  Twice(row[i]) + TwiceSum(row, idxs \ {i})

\* the raw rows that are not entirely missing once the numeric columns are coerced
IsCoercedColumn(i) ==
    \/ RenamedColumn(raw_df.columns[i]) \in {s_api_assay, s_time_months}
    \/ i \in Detected

Survives(row) ==
    \E i \in 1..Len(row) : row[i].t = "num" \/ (row[i].t = "text" /\ ~IsCoercedColumn(i))

Survivors == SelectSeq(raw_df.rows, Survives)

AfterPreprocessing == pc \notin {"load", "validate", "preprocess"} /\ ~IsEmpty(raw_df)

\* C4: every column whose trimmed, lowercased name contains "degradant" is
\* renamed to its trimmed, lowercased, space-to-underscore form, is returned by
\* detect_degradant_columns, and has its values included in total_degradants.
C4_DegradantLikeColumnsCounted ==
    /\ AfterPreprocessing =>
          \A i \in DegradantLike :
              /\ RenamedColumn(raw_df.columns[i]) = replace(CleanName(i), s_space, s_underscore)
              /\ InList(RenamedColumn(raw_df.columns[i]),
                        detect_degradant_columns(normalize_columns(raw_df)))
    /\ pc = "quality" =>
          \A k \in 1..Len(clean_df.rows) :
              LET t == Cell(clean_df.rows[k], s_total_degradants)
              IN  IsNum(t) /\ 2 * t.n = t.d * TwiceSum(Survivors[k], DegradantLike)

\* the three checks of the row validator, each on its own
FailingChecks(row) ==
    LET a == Cell(row, s_api_assay)
        t == Cell(row, s_total_degradants)
    IN  (IF AtLeast(a, 0) /\ AtMost(a, 100) THEN <<>> ELSE <<s_API_assay_out_of_range>>)
        \o (IF Under(t, 0) THEN <<s_Negative_degradants>> ELSE <<>>)
        \o (IF IsNum(a) /\ IsNum(t) /\ a.n * t.d + t.n * a.d < 90 * a.d * t.d
            THEN <<s_Suspicious_mass_loss>> ELSE <<>>)

\* C5: preprocess_input returns the table validate_and_clean was given, rows
\* and values unchanged, and an issues list with exactly one entry (row index,
\* joined text of every failing check) per row failing a check, in row order,
\* and none for any other row.
C5_IssuesListAdvisory ==
    pc = "quality" =>
        /\ clean_df = CoreCalculations(normalize_columns(raw_df),
                                       detect_degradant_columns(normalize_columns(raw_df)))
        /\ \A k \in 1..Len(issues_df) :
              /\ issues_df[k].Row \in 0..(Len(clean_df.rows) - 1)
              /\ issues_df[k].Issues =
                    join(s_comma_space, FailingChecks(clean_df.rows[issues_df[k].Row + 1]))
              /\ \A j \in 1..Len(issues_df) : j < k => issues_df[j].Row < issues_df[k].Row
        /\ \A r \in 1..Len(clean_df.rows) :
              (FailingChecks(clean_df.rows[r]) # <<>>)
                  <=> \E k \in 1..Len(issues_df) : issues_df[k].Row = r - 1

\* a row failing all three checks is reported with the three texts joined,
\* beside a row that is not reported
C5_Witness ==
    /\ pc = "quality"
    /\ Len(issues_df) = 1 /\ Len(clean_df.rows) = 2
    /\ issues_df[1].Issues =
          join(s_comma_space, <<s_API_assay_out_of_range, s_Negative_degradants, s_Suspicious_mass_loss>>)

DownstreamOutputs ==
    {"Normalized & Cleaned Data", "Data Quality Report", "issues_df", "Final Diagnostic Results",
     "result_df", "Recommendation Matrix", "rec_matrix", "AMB-RMB Diagnostic Map", "Z_MB Risk Indicator"}

\* C6: when the normalized columns lack a required column or no column has the
\* prefix degradant_, preprocessing raises an error naming the cause, the app
\* reports it and stops, and no downstream output is rendered; a table that
\* passes these checks (and has the columns the results table lists) is never
\* stopped by what its rows hold.
C6_OnlySchemaErrorsStopTheRun ==
    /\ AfterPreprocessing /\ SchemaFails =>
          /\ pc = "stopped" /\ error.type = "ValueError"
          /\ IF {s_api_assay, s_stress_type, s_time_months} \subseteq NormalizedNames
             THEN error.msg = "No degradant columns detected"
             ELSE /\ error.msg = "Missing required columns"
                  /\ error.names = {s_api_assay, s_stress_type, s_time_months} \ NormalizedNames
          /\ \A k \in 1..Len(rendered) : rendered[k] \notin DownstreamOutputs
    /\ ~IsEmpty(raw_df) /\ ~SchemaFails /\ pc = "stopped" => error.type = "KeyError"

\* the part of C6 about schema failures alone
SchemaFailureStops ==
    AfterPreprocessing /\ SchemaFails =>
        /\ pc = "stopped" /\ error.type = "ValueError"
        /\ \A k \in 1..Len(rendered) : rendered[k] \notin DownstreamOutputs

\* the label of rules 1-4 with zone number n
LabelOfRule(n) ==
    CASE n = 1 -> Zone1_label [] n = 2 -> Zone2_label [] n = 3 -> Zone3_physical_label [] n = 4 -> Zone4_label

\* C7: once the recommendation matrix is shown, its row N gives, for each zone
\* N in 1..4, the AMB and RMB ranges under which the classifier returns zone N
\* and the action recommended_action returns for zone N.
C7_MatrixMatchesRules ==
    pc \in {"charts", "comparison", "done"} =>
        \A n \in 1..4 :
            /\ rec_matrix[n].Recommended_Action = recommended_action(LabelOfRule(n))
            /\ \A row \in Rows :
                  (Cell(row, s_Diagnostic_Zone) = LabelOfRule(n))
                      <=> /\ InRange(Cell(row, s_AMB), rec_matrix[n].AMB_Range)
                          /\ InRange(Cell(row, s_RMB), rec_matrix[n].RMB_Range)

\* C8: an unparsable degradant cell becomes missing without an error; a row's
\* total_degradants is the sum of its degradant cells, each missing cell
\* counting 0, and is 0 when they are all missing; preprocess_input returns
\* for every table that passes the schema checks.
C8_MissingDegradantsCountZero ==
    /\ AfterPreprocessing /\ ~SchemaFails => Returned
    /\ pc = "quality" =>
          /\ Len(clean_df.rows) = Len(Survivors)
          /\ \A k \in 1..Len(clean_df.rows) :
                LET raw == Survivors[k]
                    row == clean_df.rows[k]
                    t   == Cell(row, s_total_degradants)
                IN  /\ \A i \in Detected :
                          row[i] = IF raw[i].t = "num" THEN raw[i] ELSE NaN
                    /\ IsNum(t)
                    /\ 2 * t.n = t.d * TwiceSum(raw, Detected)
                    /\ (\A i \in Detected : raw[i].t # "num") => t = Num(0, 1)

\* a kept row whose degradant cells are unparsable text and empty has total 0
C8_Witness ==
    /\ pc = "quality"
    /\ \E k \in 1..Len(clean_df.rows) :
          /\ \E i \in Detected : Survivors[k][i].t = "text"
          /\ \A i \in Detected : Survivors[k][i].t # "num"
          /\ Cell(clean_df.rows[k], s_total_degradants) = Num(0, 1)


====
